---- MODULE Spec2Model ----
(***************************************************************************)
(* State-machine model of cryptopanic_to_chatgpt_to_telegram.py:           *)
(*   - the orchestrator: process_once / main (seen-set file, feed, caption *)
(*     generation, publish, save);                                         *)
(*   - the interaction responder: callback_poller_loop (update offset file,*)
(*     getUpdates batches, answerCallbackQuery with fallback).             *)
(* Black-box calls (feed fetch, model call, download, send, getUpdates,    *)
(* answer) are nondeterministic: each returns or raises.                   *)
(***************************************************************************)
EXTENDS Integers, Sequences, FiniteSets, TLC

\* ---------------------------------------------------------------- bounds
MaxId == 2        \* identities are 1..MaxId; 0 stands for the empty string ""
MaxFeedLen == 2   \* longest list a fetch returns
MaxPasses == 2    \* process_once runs per behaviour
MaxCrashes == 1   \* process terminations (followed by a restart) per behaviour
MaxUpdates == 2   \* interaction updates the platform ever holds
MaxBatch == 2     \* longest list get_updates returns

Ids == 1..MaxId

\* ---------------------------------------------------------------- state
VARIABLES
    file,         \* last_seen_ids.json: [shape, ids]
    pc,           \* orchestrator position: idle, loop, image, gen, publish, save, done, exited
    last_seen,    \* process_once local: what read_last_seen returned
    posted_ids,   \* process_once local: the in-memory seen-set
    normalized,   \* process_once local: reversed list of {id, title, raw} (+ src, the feed position)
    idx,          \* position of the for loop in normalized
    new_posted,   \* process_once local flag
    image_stream, \* process_once local: none, download, fallback
    passes,       \* passes started so far
    crashes,      \* terminations so far
    passResult,   \* how the pass ended: none (running), ok, raised_load, raised_fetch, raised_image
    trace,        \* calls of the pass: [src, id, ev], ev in gen_fail, gen_ok, pub_ok, pub_fail
    pubCount,     \* successful send calls per identity, over the whole behaviour: 0, 1, 2 (or more)
    pubBefore,    \* identities successfully published before the latest termination
    rePub,        \* identities of pubBefore successfully published again after the restart
    genPending,   \* identities whose generation failed and that were not published since
    handles,      \* SOCIAL_IG_HANDLE, SOCIAL_X_HANDLE, SOCIAL_YT_HANDLE
    offsetFile,   \* tg_update_offset.json: [kind, n], kind in missing, corrupt, int
    offset,       \* callback_poller_loop local
    rpc,          \* responder position: start, poll, upd, answer1, answer2
    updates,      \* the list get_updates returned
    uidx,         \* position of the for loop in updates
    events,       \* the platform's update stream: events[u] is the callback data of update u
    confirmed,    \* the platform forgot every update with id below this
    answers,      \* answers[u]: the answer_callback_query calls made for update u
    handled,      \* updates whose loop body ran to its end
    loop          \* main's argument: TRUE with --loop, FALSE for a single pass

orchVars == <<file, pc, last_seen, posted_ids, normalized, idx, new_posted, image_stream,
              passes, crashes, passResult, trace, pubCount, pubBefore, rePub, genPending>>
respVars == <<handles, offsetFile, offset, rpc, updates, uidx, events, confirmed, answers, handled>>
mainVars == <<loop>>
vars == <<orchVars, respVars, mainVars>>

\* ------------------------------------------------------- seen-set file
\* Contents the file can have: absent, not JSON, JSON but no object (e.g. []),
\* an object whose posted_ids is not iterable (null, a number), an object with
\* a list of identities (an object without the key reads as the empty list).
FileShapes == {"missing", "unparseable", "not_record", "bad_ids", "record"}

EmptyRecord == [shape |-> "record", ids |-> {}]

FileContents ==
    {[shape |-> s, ids |-> {}] : s \in FileShapes \ {"record"}}
        \cup {[shape |-> "record", ids |-> S] : S \in SUBSET Ids}

\* The identities a file holds.
FileIds(f) == IF f.shape = "record" THEN f.ids ELSE {}

read_last_seen(f) ==
    IF f.shape \in {"missing", "unparseable"} THEN EmptyRecord ELSE f

\* last_seen.get("posted_ids", []) raises on a non-object, set(...) on a non-iterable.
LoadRaises(ls) == ls.shape \in {"not_record", "bad_ids"}

LoadedIds(ls) == ls.ids

\* last_seen["posted_ids"] = list(posted_ids); write_last_seen(last_seen)
SavedNoLoad(ls, posted) == [shape |-> "record", ids |-> posted \ ls.ids]
Saved(ls, posted) == [shape |-> "record", ids |-> posted]

\* ------------------------------------------------------- feed items
\* The media of a raw item: "hints" is any media/thumbnail/image content the
\* extraction code can read (see MediaHints); "bad_list" is a media list whose
\* first element is no record.
MediaShapes == {"hints", "bad_list"}

\* Readable hints: nothing at all; a string that is no http URL; an http URL.
MediaHints == {"absent", "not_http", "http"}

\* An item without identity is skipped before its media is looked at, so one
\* media shape stands for all of them.
RawItems ==
    {r \in [id : 0..MaxId, url : {0}, title : {0}, media : MediaShapes] :
        r.id = 0 => r.media = "hints"}

RECURSIVE SeqsUpTo(_, _)
SeqsUpTo(S, n) ==
    IF n = 0 THEN {<<>>}
    ELSE LET shorter == SeqsUpTo(S, n - 1)
         IN shorter \cup {Append(s, x) : s \in {t \in shorter : Len(t) = n - 1}, x \in S}

Feeds == SeqsUpTo(RawItems, MaxFeedLen)

\* str(it.get("id") or it.get("url") or it.get("title") or "")
ItemIdUrlFirst(raw) ==
    IF raw.url # 0 THEN raw.url
    ELSE IF raw.id # 0 THEN raw.id
    ELSE IF raw.title # 0 THEN raw.title
    ELSE 0
ItemId(raw) ==
    IF raw.id # 0 THEN raw.id
    ELSE IF raw.url # 0 THEN raw.url
    ELSE IF raw.title # 0 THEN raw.title
    ELSE 0

Normalize(items) ==
    [k \in 1..Len(items) |->
        [id |-> ItemId(items[k]), title |-> items[k].title, raw |-> items[k], src |-> k]]

NotReversed(s) == s
Reversed(s) == [k \in 1..Len(s) |-> s[Len(s) + 1 - k]]

\* if not item_id or item_id in posted_ids: continue
Skips(item_id, posted) == item_id = 0 \/ item_id \in posted

\* raw["media"][0].get("url") on a first element that is no record
ImageRaises(raw) == raw.media = "bad_list"

\* download_image is called only for an http URL
WantsDownload(hint) == hint = "http"

\* posted_ids after the try block around send_photo
MarkAlways(posted, item_id, ok) == posted \cup {item_id}
Mark(posted, item_id, ok) == IF ok THEN posted \cup {item_id} ELSE posted

\* where the loop goes after call_openai_generate
AfterGenNoSkip(ok) == "publish"
AfterGen(ok) == IF ok THEN "publish" ELSE "loop"

Min(a, b) == IF a <= b THEN a ELSE b

Cur == normalized[idx]

Event(ev) == [src |-> Cur.src, id |-> Cur.id, ev |-> ev]

\* ------------------------------------------------------- orchestrator
InitOrch ==
    /\ file \in FileContents
    /\ pc = "idle"
    /\ last_seen = EmptyRecord
    /\ posted_ids = {}
    /\ normalized = <<>>
    /\ idx = 1
    /\ new_posted = FALSE
    /\ image_stream = "none"
    /\ passes = 0
    /\ crashes = 0
    /\ passResult = "none"
    /\ trace = <<>>
    /\ pubCount = [d \in Ids |-> 0]
    /\ pubBefore = {}
    /\ rePub = {}
    /\ genPending = {}

\* fetch_via_api / scrape_public_feed: the request or the parse raised
\* (failed) or gave these items; except Exception: log, return []
FetchRaises(items, failed) == [raised |-> failed, items |-> items]
Fetched(items, failed) == [raised |-> FALSE, items |-> IF failed THEN <<>> ELSE items]

\* process_once up to the for loop: load, fetch, normalize, reverse.
StartPass ==
    /\ pc = "idle"
    /\ passes < MaxPasses
    /\ passes' = passes + 1
    /\ last_seen' = read_last_seen(file)
    /\ IF LoadRaises(last_seen')
       THEN /\ passResult' = "raised_load"
            /\ pc' = "done"
            /\ posted_ids' = {}
            /\ normalized' = <<>>
       ELSE /\ posted_ids' = LoadedIds(last_seen')
            /\ \E items \in Feeds, failed \in BOOLEAN :
                  LET got == Fetched(items, failed) IN
                  IF got.raised
                  THEN /\ passResult' = "raised_fetch"
                       /\ pc' = "done"
                       /\ normalized' = <<>>
                  ELSE IF got.items = <<>>
                  THEN /\ passResult' = "ok"
                       /\ pc' = "done"
                       /\ normalized' = <<>>
                  ELSE /\ passResult' = "none"
                       /\ pc' = "loop"
                       /\ normalized' = Reversed(Normalize(got.items))
    /\ UNCHANGED <<file, idx, new_posted, image_stream, trace, crashes, pubCount,
                   pubBefore, rePub, genPending>>
    /\ UNCHANGED <<respVars, mainVars>>

\* the head of the for loop: next item, skip test, or loop exit
LoopStep ==
    /\ pc = "loop"
    /\ IF idx > Len(normalized)
       THEN /\ pc' = "save"
            /\ idx' = idx
       ELSE IF Skips(Cur.id, posted_ids)
       THEN /\ pc' = "loop"
            /\ idx' = idx + 1
       ELSE /\ pc' = "image"
            /\ idx' = idx
    /\ UNCHANGED <<file, last_seen, posted_ids, normalized, new_posted, image_stream,
                   passes, crashes, passResult, trace, pubCount, pubBefore, rePub, genPending>>
    /\ UNCHANGED <<respVars, mainVars>>

\* media_url extraction, download_image, generate_fallback_image
ResolveImage ==
    /\ pc = "image"
    /\ IF ImageRaises(Cur.raw)
       THEN /\ pc' = "done"
            /\ passResult' = "raised_image"
            /\ image_stream' = "none"
       ELSE /\ pc' = "gen"
            /\ passResult' = passResult
            /\ \E hint \in MediaHints, downloaded \in BOOLEAN :
                  image_stream' = IF WantsDownload(hint) /\ downloaded
                                  THEN "download" ELSE "fallback"
    /\ UNCHANGED <<file, last_seen, posted_ids, normalized, idx, new_posted,
                   passes, crashes, trace, pubCount, pubBefore, rePub, genPending>>
    /\ UNCHANGED <<respVars, mainVars>>

\* build_openai_prompt, call_openai_generate, if not gen: continue
Generate ==
    /\ pc = "gen"
    /\ \E ok \in BOOLEAN :
          /\ pc' = AfterGen(ok)
          /\ idx' = IF pc' = "loop" THEN idx + 1 ELSE idx
          /\ trace' = Append(trace, Event(IF ok THEN "gen_ok" ELSE "gen_fail"))
          /\ genPending' = IF ok THEN genPending ELSE genPending \cup {Cur.id}
    /\ UNCHANGED <<file, last_seen, posted_ids, normalized, new_posted, image_stream,
                   passes, crashes, passResult, pubCount, pubBefore, rePub>>
    /\ UNCHANGED <<respVars, mainVars>>

\* the for loop moves on after the try block, whether send_photo raised or not
RetryOnFailure(i, ok) == IF ok THEN i + 1 ELSE i
AfterPublish(i, ok) == i + 1

\* the try block around bot.send_photo
Publish ==
    /\ pc = "publish"
    /\ \E ok \in BOOLEAN :
          /\ trace' = Append(trace, Event(IF ok THEN "pub_ok" ELSE "pub_fail"))
          /\ posted_ids' = Mark(posted_ids, Cur.id, ok)
          /\ new_posted' = (new_posted \/ ok)
          /\ pubCount' = IF ok THEN [pubCount EXCEPT ![Cur.id] = Min(@ + 1, 2)] ELSE pubCount
          /\ rePub' = IF ok /\ Cur.id \in pubBefore THEN rePub \cup {Cur.id} ELSE rePub
          /\ genPending' = IF ok THEN genPending \ {Cur.id} ELSE genPending
          /\ idx' = AfterPublish(idx, ok)
    /\ pc' = "loop"
    /\ UNCHANGED <<file, last_seen, normalized, image_stream, passes, crashes,
                   passResult, pubBefore>>
    /\ UNCHANGED <<respVars, mainVars>>

\* if new_posted: write_last_seen(last_seen)
Save ==
    /\ pc = "save"
    /\ file' = IF new_posted THEN Saved(last_seen, posted_ids) ELSE file
    /\ pc' = "done"
    /\ passResult' = "ok"
    /\ UNCHANGED <<last_seen, posted_ids, normalized, idx, new_posted, image_stream,
                   passes, crashes, trace, pubCount, pubBefore, rePub, genPending>>
    /\ UNCHANGED <<respVars, mainVars>>

\* whether the end of process_once, with this result, leaves main: always in
\* single-pass mode; never in loop mode, where try/except catches what it raised
EscapesUncaught(lp, result) == ~lp \/ result # "ok"
Escapes(lp, result) == ~lp

\* process_once is over (returned or raised): its locals are gone; main logs an
\* escaped exception, sleeps POLL_INTERVAL_SECONDS and calls process_once again
EndPass ==
    /\ pc = "done"
    /\ ~Escapes(loop, passResult)
    /\ pc' = "idle"
    /\ passResult' = "none"
    /\ last_seen' = EmptyRecord
    /\ posted_ids' = {}
    /\ normalized' = <<>>
    /\ idx' = 1
    /\ new_posted' = FALSE
    /\ image_stream' = "none"
    /\ trace' = <<>>
    /\ UNCHANGED <<file, passes, crashes, pubCount, pubBefore, rePub, genPending>>
    /\ UNCHANGED <<respVars, mainVars>>

\* the process is terminated between two steps of a pass and started again
Crash ==
    /\ pc # "exited"
    /\ pc # "idle" \/ rpc # "start"
    /\ crashes < MaxCrashes
    /\ crashes' = crashes + 1
    /\ pc' = "idle"
    /\ passResult' = "none"
    /\ trace' = <<>>
    /\ posted_ids' = {}
    /\ normalized' = <<>>
    /\ idx' = 1
    /\ new_posted' = FALSE
    /\ image_stream' = "none"
    /\ last_seen' = EmptyRecord
    /\ pubBefore' = {d \in Ids : pubCount[d] > 0}
    /\ rpc' = "start"
    /\ offset' = 0
    /\ updates' = <<>>
    /\ uidx' = 1
    /\ UNCHANGED <<file, passes, pubCount, rePub, genPending>>
    /\ UNCHANGED <<handles, offsetFile, events, confirmed, answers, handled>>
    /\ UNCHANGED mainVars

\* single-pass mode: process_once returned (then time.sleep(2)) or raised out
\* of main; the main thread ends, and with it the process and its daemon thread
ExitOnce ==
    /\ pc = "done"
    /\ Escapes(loop, passResult)
    /\ pc' = "exited"
    /\ last_seen' = EmptyRecord
    /\ posted_ids' = {}
    /\ normalized' = <<>>
    /\ idx' = 1
    /\ new_posted' = FALSE
    /\ image_stream' = "none"
    /\ rpc' = "exited"
    /\ offset' = 0
    /\ updates' = <<>>
    /\ uidx' = 1
    /\ UNCHANGED <<file, passes, crashes, passResult, trace, pubCount, pubBefore, rePub, genPending>>
    /\ UNCHANGED <<handles, offsetFile, events, confirmed, answers, handled>>
    /\ UNCHANGED mainVars

\* ------------------------------------------------------- responder
\* callback data of an update; "none" is an update without callback_query
DataKeys == {"social_ig", "social_x", "social_yt", "other", "none"}

\* a handle is "" (not set) or a configured string
HandleConfigs == [ig : {"", "@ig"}, x : {"", "@x"}, yt : {"", "@yt"}]

NotSet == <<"Handle not set.">>

\* the if/elif chain choosing answer_text
AnswerTextNoConfigTest(data, h) ==
    IF data = "social_ig" THEN <<"IG: ", h.ig>>
    ELSE IF data = "social_x" THEN <<"X: ", h.x>>
    ELSE IF data = "social_yt" THEN <<"YT: ", h.yt>>
    ELSE NotSet
AnswerText(data, h) ==
    IF data = "social_ig" /\ h.ig # "" THEN <<"IG: ", h.ig>>
    ELSE IF data = "social_x" /\ h.x # "" THEN <<"X: ", h.x>>
    ELSE IF data = "social_yt" /\ h.yt # "" THEN <<"YT: ", h.yt>>
    ELSE NotSet

\* int(text) or 0; 0 when the file is missing or does not parse
read_update_offset(f) == IF f.kind = "int" THEN f.n ELSE 0

\* UPDATE_OFFSET_FILE.write_text(str(offset))
OffsetWrittenStale(off) == [kind |-> "int", n |-> off - 1]
OffsetWritten(off) == [kind |-> "int", n |-> off]

Max(a, b) == IF a >= b THEN a ELSE b

\* offset = max(offset, upd.update_id + 1)
AdvanceToLatest(off, update_id) == update_id + 1
Advance(off, update_id) == Max(off, update_id + 1)

\* except Exception in the while loop: log, time.sleep(5), next iteration
PollerStopsOnError == "stopped"
AfterPollerError == "backoff"

\* the fallback call is made only in the except branch of the first call
FallbackAlways(ok) == TRUE
FallbackNeeded(ok) == ~ok

\* updates the platform still holds for a request with this offset
Pending(off) == {u \in 1..Len(events) : u >= off /\ u >= confirmed}

\* the k lowest of a set of update ids
Lowest(S, k) == {u \in S : Cardinality({v \in S : v < u}) < k}

\* the lists get_updates may return: the lowest pending updates, in any order
Batches(off) ==
    {s \in SeqsUpTo(Pending(off), MaxBatch) :
        /\ \A i, j \in 1..Len(s) : i # j => s[i] # s[j]
        /\ {s[i] : i \in 1..Len(s)} = Lowest(Pending(off), Len(s))}

CurUpd == updates[uidx]

InitResp ==
    /\ handles \in HandleConfigs
    /\ offsetFile \in {[kind |-> k, n |-> 0] : k \in {"missing", "corrupt"}}
    /\ offset = 0
    /\ rpc = "start"
    /\ updates = <<>>
    /\ uidx = 1
    /\ events = <<>>
    /\ confirmed = 0
    /\ answers = [u \in 1..MaxUpdates |-> <<>>]
    /\ handled = {}

\* a user presses a button (or another update arrives) on the platform
UserPress ==
    /\ Len(events) < MaxUpdates
    /\ \E data \in DataKeys : events' = Append(events, data)
    /\ UNCHANGED <<handles, offsetFile, offset, rpc, updates, uidx, confirmed, answers, handled>>
    /\ UNCHANGED <<orchVars, mainVars>>

\* offset = read_update_offset()
PollerStart ==
    /\ rpc = "start"
    /\ offset' = read_update_offset(offsetFile)
    /\ rpc' = "poll"
    /\ UNCHANGED <<handles, offsetFile, updates, uidx, events, confirmed, answers, handled>>
    /\ UNCHANGED <<orchVars, mainVars>>

\* updates = bot.get_updates(offset=offset, timeout=10)
GetUpdates ==
    /\ rpc = "poll"
    /\ \E batch \in Batches(offset) :
          /\ updates' = batch
          /\ uidx' = 1
    /\ confirmed' = Max(confirmed, offset)
    /\ rpc' = "upd"
    /\ UNCHANGED <<handles, offsetFile, offset, events, answers, handled>>
    /\ UNCHANGED <<orchVars, mainVars>>

\* get_updates raises: the outer except logs it
GetUpdatesFails ==
    /\ rpc = "poll"
    /\ rpc' = AfterPollerError
    /\ UNCHANGED <<handles, offsetFile, offset, updates, uidx, events, confirmed, answers, handled>>
    /\ UNCHANGED <<orchVars, mainVars>>

\* time.sleep(5) in the outer except, then the next iteration
Backoff ==
    /\ rpc = "backoff"
    /\ rpc' = "poll"
    /\ UNCHANGED <<handles, offsetFile, offset, updates, uidx, events, confirmed, answers, handled>>
    /\ UNCHANGED <<orchVars, mainVars>>

\* (variant: UPDATE_OFFSET_FILE and LAST_SEEN_FILE name the same file)
ProcessUpdateSameFile ==
    /\ rpc = "upd"
    /\ uidx <= Len(updates)
    /\ offset' = Advance(offset, CurUpd)
    /\ offsetFile' = OffsetWritten(offset')
    /\ IF events[CurUpd] # "none"
       THEN /\ rpc' = "answer1"
            /\ uidx' = uidx
            /\ handled' = handled
       ELSE /\ rpc' = "upd"
            /\ uidx' = uidx + 1
            /\ handled' = handled \cup {CurUpd}
    /\ UNCHANGED <<handles, updates, events, confirmed, answers>>
    /\ file' = [shape |-> "not_record", ids |-> {}]
    /\ UNCHANGED <<pc, last_seen, posted_ids, normalized, idx, new_posted, image_stream,
                   passes, crashes, passResult, trace, pubCount, pubBefore, rePub, genPending>>
    /\ UNCHANGED mainVars

\* for upd in updates: advance the offset, save it, look at callback_query
ProcessUpdate ==
    /\ rpc = "upd"
    /\ uidx <= Len(updates)
    /\ offset' = Advance(offset, CurUpd)
    /\ offsetFile' = OffsetWritten(offset')
    /\ IF events[CurUpd] # "none"
       THEN /\ rpc' = "answer1"
            /\ uidx' = uidx
            /\ handled' = handled
       ELSE /\ rpc' = "upd"
            /\ uidx' = uidx + 1
            /\ handled' = handled \cup {CurUpd}
    /\ UNCHANGED <<handles, updates, events, confirmed, answers>>
    /\ UNCHANGED <<orchVars, mainVars>>

\* write_update_offset raises: the rest of the batch is dropped
WriteOffsetFails ==
    /\ rpc = "upd"
    /\ uidx <= Len(updates)
    /\ offset' = Advance(offset, CurUpd)
    /\ rpc' = AfterPollerError
    /\ UNCHANGED <<handles, offsetFile, updates, uidx, events, confirmed, answers, handled>>
    /\ UNCHANGED <<orchVars, mainVars>>

\* the for loop is over: time.sleep(sleep_seconds), next iteration
EndBatch ==
    /\ rpc = "upd"
    /\ uidx > Len(updates)
    /\ rpc' = "poll"
    /\ UNCHANGED <<handles, offsetFile, offset, updates, uidx, events, confirmed, answers, handled>>
    /\ UNCHANGED <<orchVars, mainVars>>

Call(alert, ok) == [text |-> AnswerText(events[CurUpd], handles), alert |-> alert, ok |-> ok]

\* bot.answer_callback_query(..., show_alert=True)
Answer1 ==
    /\ rpc = "answer1"
    /\ \E ok \in BOOLEAN :
          /\ answers' = [answers EXCEPT ![CurUpd] = Append(@, Call(TRUE, ok))]
          /\ IF FallbackNeeded(ok)
             THEN /\ rpc' = "answer2"
                  /\ uidx' = uidx
                  /\ handled' = handled
             ELSE /\ rpc' = "upd"
                  /\ uidx' = uidx + 1
                  /\ handled' = handled \cup {CurUpd}
    /\ UNCHANGED <<handles, offsetFile, offset, updates, events, confirmed>>
    /\ UNCHANGED <<orchVars, mainVars>>

\* the fallback: bot.answer_callback_query(..., show_alert=False)
Answer2 ==
    /\ rpc = "answer2"
    /\ \E ok \in BOOLEAN :
          answers' = [answers EXCEPT ![CurUpd] = Append(@, Call(FALSE, ok))]
    /\ rpc' = "upd"
    /\ uidx' = uidx + 1
    /\ handled' = handled \cup {CurUpd}
    /\ UNCHANGED <<handles, offsetFile, offset, updates, events, confirmed>>
    /\ UNCHANGED <<orchVars, mainVars>>

\* ------------------------------------------------------- specifications
\* the responder before its thread runs; the orchestrator between passes
RespQuiet ==
    /\ handles = [ig |-> "", x |-> "", yt |-> ""]
    /\ offsetFile = [kind |-> "missing", n |-> 0]
    /\ offset = 0
    /\ rpc = "start"
    /\ updates = <<>>
    /\ uidx = 1
    /\ events = <<>>
    /\ confirmed = 0
    /\ answers = [u \in 1..MaxUpdates |-> <<>>]
    /\ handled = {}

OrchQuiet ==
    /\ InitOrch
    /\ file = [shape |-> "missing", ids |-> {}]

\* passes of the orchestrator, the process never terminated
LoopMode == loop = TRUE
InitPasses == InitOrch /\ RespQuiet /\ LoopMode
NextPasses == StartPass \/ LoopStep \/ ResolveImage \/ Generate \/ Publish \/ Save \/ EndPass
SpecPasses == InitPasses /\ [][NextPasses]_vars

\* passes of the orchestrator with terminations and restarts, from a first
\* start (no seen-set file yet, or one that does not parse)
InitOrchFresh == InitPasses /\ file.shape \in {"missing", "unparseable"}
NextOrch == NextPasses \/ Crash
SpecOrch == InitOrchFresh /\ [][NextOrch]_vars

\* the responder with terminations and restarts
InitRespOnly == OrchQuiet /\ InitResp /\ LoopMode
NextResp ==
    \/ UserPress \/ PollerStart \/ GetUpdates \/ GetUpdatesFails \/ Backoff
    \/ ProcessUpdate \/ WriteOffsetFails \/ EndBatch \/ Answer1 \/ Answer2 \/ Crash
SpecResp == InitRespOnly /\ [][NextResp]_vars

\* the responder thread is scheduled again and again and each of its blocking
\* calls returns or raises (get_updates has timeout=10): its next step is
\* eventually taken
RespStep ==
    \/ PollerStart \/ GetUpdates \/ GetUpdatesFails \/ Backoff
    \/ ProcessUpdate \/ WriteOffsetFails \/ EndBatch \/ Answer1 \/ Answer2
\* (the handles only choose the answer text: one configuration is enough here)
InitRespLive == InitRespOnly /\ handles = [ig |-> "", x |-> "", yt |-> ""]
SpecRespLive == InitRespLive /\ [][NextResp]_vars /\ WF_vars(RespStep)

\* Raw items with any combination of id, url and title present (a value of
\* Ids) or missing/empty (0), and short feeds of them
WideItems == [id : 0..MaxId, url : 0..MaxId, title : 0..MaxId, media : {"hints"}]
WideFeeds == SeqsUpTo(WideItems, MaxFeedLen - 1) \ {<<>>}

\* a pass from the head of its for loop on, for a feed of such items and an
\* empty seen-set
InitItems ==
    /\ file = [shape |-> "missing", ids |-> {}]
    /\ pc = "loop"
    /\ last_seen = read_last_seen(file)
    /\ posted_ids = LoadedIds(last_seen)
    /\ \E items \in WideFeeds : normalized = Reversed(Normalize(items))
    /\ idx = 1
    /\ new_posted = FALSE
    /\ image_stream = "none"
    /\ passes = 1
    /\ crashes = 0
    /\ passResult = "none"
    /\ trace = <<>>
    /\ pubCount = [d \in Ids |-> 0]
    /\ pubBefore = {}
    /\ rePub = {}
    /\ genPending = {}
    /\ RespQuiet
    /\ LoopMode
NextItems == LoopStep \/ ResolveImage \/ Generate \/ Publish \/ Save \/ EndPass
SpecItems == InitItems /\ [][NextItems]_vars

\* main: the orchestrator in either mode, from a first start, next to a
\* responder thread to which no update arrives; the process is not terminated
\* from outside. The main thread's calls return or raise, so its next step is
\* eventually taken.
InitMain ==
    /\ OrchQuiet
    /\ InitResp
    /\ handles = [ig |-> "", x |-> "", yt |-> ""]
    /\ offsetFile.kind = "missing"
    /\ loop \in BOOLEAN
MainStep == NextPasses \/ ExitOnce
NextMain ==
    \/ StartPass \/ LoopStep \/ ResolveImage \/ Generate \/ Publish \/ Save \/ EndPass
    \/ ExitOnce
    \/ PollerStart \/ GetUpdates \/ GetUpdatesFails \/ Backoff \/ EndBatch
SpecMain == InitMain /\ [][NextMain]_vars /\ WF_vars(MainStep)

\* one pass of the orchestrator (single-pass mode) interleaved with the
\* responder answering updates
InitBoth == InitMain /\ ~loop
NextBoth ==
    \/ StartPass \/ LoopStep \/ ResolveImage \/ Generate \/ Publish \/ Save \/ ExitOnce
    \/ UserPress \/ PollerStart \/ GetUpdates \/ GetUpdatesFails \/ Backoff
    \/ ProcessUpdate \/ WriteOffsetFails \/ EndBatch \/ Answer1 \/ Answer2
SpecBoth == InitBoth /\ [][NextBoth]_vars

\* ------------------------------------------------------- claims: orchestrator
PubEvs == {"pub_ok", "pub_fail"}

\* the pass made a call with this outcome for identity d
Has(d, ev) == \E i \in 1..Len(trace) : trace[i].id = d /\ trace[i].ev = ev

\* the publish calls of the pass, in the order they were made
PubCalls == SelectSeq(trace, LAMBDA e : e.ev \in PubEvs)

\* C1: over any sequence of passes (no termination), no identity is published
\* successfully more than once.
C1_PublishedAtMostOnce == \A d \in Ids : pubCount[d] <= 1

\* C2: an identity published successfully before a termination is not
\* published again after the restart.
C2_NoRepublishAfterRestart == rePub = {}

\* C3 (as claimed): once the pass is over, an identity that was not in the
\* seen-set before the pass and for which a publish call threw is in neither
\* the in-memory nor the persisted seen-set.
C3_FailedPublishUnmarked_Claimed ==
    pc = "done" =>
        \A d \in Ids :
            (d \notin LoadedIds(last_seen) /\ Has(d, "pub_fail"))
                => (d \notin posted_ids /\ d \notin FileIds(file))

\* C3 (amended): once the pass is over, an identity that was not in the
\* seen-set before the pass and for which every publish call of the pass threw
\* (at least one was made) is in neither the in-memory nor the persisted
\* seen-set.
C3_FailedPublishUnmarked ==
    pc = "done" =>
        \A d \in Ids :
            (d \notin LoadedIds(last_seen) /\ Has(d, "pub_fail") /\ ~Has(d, "pub_ok"))
                => (d \notin posted_ids /\ d \notin FileIds(file))

\* C3 witness: a pass that returned after a failed publish of one identity and
\* a successful publish of another, so the file was written without the former.
C3_Witness ==
    /\ pc = "done"
    /\ passResult = "ok"
    /\ new_posted
    /\ \E d \in Ids : Has(d, "pub_fail") /\ ~Has(d, "pub_ok") /\ d \notin FileIds(file)

\* C4: once a pass is over, every identity whose publish completed without
\* error is recorded in the persisted seen-set.
C4_PublishedIsPersisted ==
    pc = "done" => \A d \in Ids : pubCount[d] > 0 => d \in FileIds(file)

\* C5: the publish calls of a pass are made in reverse feed order (the item the
\* source listed later is published first); and for the feed [{id 2}, {id 1}]
\* with an empty seen-set, when generation and publish succeed, the pass
\* publishes 1 then 2 and leaves the seen-set {1, 2} in memory and on file.
C5_OldestFirst ==
    /\ \A i, j \in 1..Len(PubCalls) : i < j => PubCalls[i].src > PubCalls[j].src
    /\ ( /\ pc = "done"
         /\ passResult = "ok"
         /\ LoadedIds(last_seen) = {}
         /\ Len(normalized) = 2
         /\ \A k \in 1..2 : normalized[k].id = 3 - normalized[k].src
         /\ \A i \in 1..Len(trace) : trace[i].ev \in {"gen_ok", "pub_ok"} )
       => ( /\ Len(PubCalls) = 2
            /\ PubCalls[1].id = 1
            /\ PubCalls[2].id = 2
            /\ posted_ids = {1, 2}
            /\ FileIds(file) = {1, 2} )

\* C5 witness: the scenario's pass is over: feed [{id 2}, {id 1}], both published.
C5_Witness ==
    /\ pc = "done"
    /\ passResult = "ok"
    /\ LoadedIds(last_seen) = {}
    /\ Len(normalized) = 2
    /\ \A k \in 1..2 : normalized[k].id = 3 - normalized[k].src
    /\ Len(PubCalls) = 2
    /\ \A i \in 1..Len(trace) : trace[i].ev \in {"gen_ok", "pub_ok"}

\* C6: whatever the seen-set file holds, a pass never ends with an error raised
\* while loading it.
C6_LoadNeverRaises == passResult # "raised_load"

\* C7: no step removes an identity from the persisted seen-set: the file after
\* a step holds every identity it held before.
C7_FileGrows == [][FileIds(file) \subseteq FileIds(file')]_vars

\* C7 witness: after a restart, a pass that loaded a non-empty seen-set has
\* written a larger one.
C7_Witness ==
    /\ pc = "done"
    /\ crashes > 0
    /\ new_posted
    /\ LoadedIds(last_seen) # {}
    /\ LoadedIds(last_seen) \subseteq FileIds(file)
    /\ FileIds(file) # LoadedIds(last_seen)

\* C8 (as claimed): an identity whose caption generation failed in the pass is
\* not added to the seen-set in that pass (so the next pass attempts it again).
C8_GenFailureUnmarked_Claimed ==
    \A d \in Ids : Has(d, "gen_fail") => d \notin posted_ids

\* C8 (amended): no publish call is made for an item whose generation failed;
\* and an identity whose generation failed stays out of the in-memory and the
\* persisted seen-set, so that a later pass does not skip it, until an item
\* with that identity is published successfully.
C8_GenFailurePolicy ==
    /\ \A i, j \in 1..Len(trace) :
          trace[i].ev = "gen_fail" => ~(trace[j].src = trace[i].src /\ trace[j].ev \in PubEvs)
    /\ \A d \in genPending : d \notin posted_ids /\ d \notin FileIds(file)
    /\ \A d \in Ids : (Has(d, "gen_fail") /\ ~Has(d, "pub_ok")) => d \in genPending

\* C8 witness: a later pass attempts an identity again whose generation failed
\* in an earlier pass: its generation has now succeeded.
C8_Witness ==
    /\ pc = "publish"
    /\ passes > 1
    /\ Cur.id \in genPending
    /\ ~Has(Cur.id, "gen_fail")

\* ------------------------------------------------------- claims: responder
\* successful answer calls for update u
Successes(u) == Cardinality({k \in 1..Len(answers[u]) : answers[u][k].ok})

IsCallback(u) == events[u] # "none"

\* C9 (as claimed): every update with a callback query whose handling is over
\* has received exactly one answer.
C9_ExactlyOneAnswer_Claimed ==
    \A u \in handled : IsCallback(u) => Successes(u) = 1

\* C9 (amended): no update ever receives more than one answer, an update
\* without callback query none; a handled callback query got the pop-up call
\* and, only if that raised, the non-pop-up call: exactly one answer unless
\* both calls raised.
C9_AtMostOneAnswer ==
    \A u \in 1..Len(events) :
        /\ Successes(u) <= 1
        /\ ~IsCallback(u) => answers[u] = <<>>
        /\ (u \in handled /\ IsCallback(u)) =>
              /\ Len(answers[u]) \in {1, 2}
              /\ answers[u][1].alert
              /\ Len(answers[u]) = 1 => answers[u][1].ok
              /\ Len(answers[u]) = 2 => (~answers[u][1].ok /\ ~answers[u][2].alert)

\* C9 witness: the pop-up call raised and the fallback call answered the update.
C9_Witness ==
    \E u \in handled :
        /\ Len(answers[u]) = 2
        /\ ~answers[u][1].ok
        /\ answers[u][2].ok

SocialKeys == {"social_ig", "social_x", "social_yt"}

HandleOf(data) ==
    IF data = "social_ig" THEN handles.ig
    ELSE IF data = "social_x" THEN handles.x
    ELSE IF data = "social_yt" THEN handles.yt
    ELSE ""

Label(data) ==
    IF data = "social_ig" THEN "IG: " ELSE IF data = "social_x" THEN "X: " ELSE "YT: "

\* C10: every answer call for an update whose key is outside the static set, or
\* whose handle is not configured, carries "Handle not set."; for a key with a
\* configured handle it carries that handle's text; and whenever an answer call
\* was made for update u, or u was handled, the persisted offset is above u
\* (and so is the offset in memory once the responder has read it).
C10_AnswerText ==
    \A u \in 1..Len(events) :
        /\ \A k \in 1..Len(answers[u]) :
              answers[u][k].text =
                  IF events[u] \in SocialKeys /\ HandleOf(events[u]) # ""
                  THEN <<Label(events[u]), HandleOf(events[u])>>
                  ELSE <<"Handle not set.">>
        /\ (answers[u] # <<>> \/ u \in handled) =>
              /\ offsetFile.kind = "int"
              /\ offsetFile.n >= u + 1
              /\ rpc # "start" => offset >= u + 1

\* C10 witness: an update with an unknown key and an update with a key whose
\* handle is not configured were both answered.
C10_Witness ==
    /\ \E u \in handled : events[u] = "other" /\ Successes(u) = 1
    /\ \E u \in handled :
          events[u] \in SocialKeys /\ HandleOf(events[u]) = "" /\ Successes(u) = 1

\* ------------------------------------------------------- claims: watermark
\* the update the responder is working on, if any
InBatch == rpc \in {"upd", "answer1", "answer2"}

\* the updates of the current batch the responder has not started yet
Remaining == {updates[k] : k \in {j \in 1..Len(updates) : j >= uidx}}

\* C11: the persisted offset never decreases; the offset in memory never
\* decreases while the responder runs; once an update u is handled the
\* persisted offset is at least u + 1; after a start the responder works with
\* an offset no lower than the persisted one, every update of a batch is at or
\* above the persisted offset read at that start, and no handled update is
\* met in a batch again.
C11_WatermarkMonotone ==
    /\ [][/\ read_update_offset(offsetFile') >= read_update_offset(offsetFile)
          /\ (rpc # "start" /\ rpc' # "start") => offset' >= offset]_vars
    /\ [](\A u \in handled : read_update_offset(offsetFile) >= u + 1)
    /\ [](rpc # "start" => offset >= read_update_offset(offsetFile))
    /\ [](InBatch => Remaining \cap handled = {})

\* C11 witness: a batch listed update 2 before update 1 and both were handled;
\* the offset went to 3 with update 2 and stayed there with update 1.
C11_Witness ==
    /\ rpc = "upd"
    /\ updates = <<2, 1>>
    /\ uidx = 3
    /\ handled = {1, 2}
    /\ offset = 3
    /\ offsetFile = [kind |-> "int", n |-> 3]

\* C12: the responder loop never ends on an error: it is always at one of the
\* positions of its loop, and under fairness it calls get_updates infinitely
\* often, whatever raised before (the long poll, the offset write, both answer
\* calls).
C12_PollsForever ==
    /\ [](rpc \in {"start", "poll", "upd", "answer1", "answer2", "backoff"})
    /\ []<><<GetUpdates \/ GetUpdatesFails>>_vars

\* C12 witness: in earlier iterations both answer calls of one update raised
\* and the offset write for another update raised (that update is below the
\* offset in memory, above the persisted one, and not handled); the responder
\* is about to poll again.
C12_Witness ==
    /\ rpc = "poll"
    /\ \E u \in handled :
          Len(answers[u]) = 2 /\ ~answers[u][1].ok /\ ~answers[u][2].ok
    /\ \E u \in 1..Len(events) :
          u \notin handled /\ offset >= u + 1 /\ read_update_offset(offsetFile) < u + 1

\* ------------------------------------------------------- claims: two threads
\* C13: the two threads share no mutable state: every step changes the state
\* of at most one of them (the end of the process apart, which ends both), so
\* the orchestrator's variables (seen-set file, published items) move only by
\* steps of the orchestrator and the responder's variables (offset file,
\* offset, answers) only by steps of the responder or of the platform.
C13_NoSharedState ==
    /\ [][UNCHANGED orchVars \/ UNCHANGED respVars \/ pc' = "exited"]_vars
    /\ [][MainStep]_orchVars
    /\ [][RespStep \/ UserPress \/ ExitOnce]_respVars

\* C13 witness: the orchestrator is between a successful publish and the next
\* one while the responder, which already handled an update, is between the
\* offset write and the answer call of another.
C13_Witness ==
    /\ pc = "publish"
    /\ \E i \in 1..Len(trace) : trace[i].ev = "pub_ok"
    /\ rpc = "answer1"
    /\ handled # {}

\* C14: in single-pass mode the process makes exactly one pass and then ends
\* (with its responder thread), whether the pass returned or raised; in loop
\* mode the process never ends by itself and pass follows pass, also after a
\* pass that raised: every run reaches the last pass the bound on passes allows.
C14_EntryPoints ==
    /\ [](~loop => passes <= 1)
    /\ [](pc = "exited" => (~loop /\ passes = 1 /\ rpc = "exited"))
    /\ [](loop => (pc # "exited" /\ rpc # "exited"))
    /\ <>(IF loop THEN passes = MaxPasses ELSE pc = "exited")

\* C14 witness: a single-pass run whose pass raised has ended, after one pass
\* in which an item was published.
C14_Witness ==
    /\ pc = "exited"
    /\ passes = 1
    /\ passResult = "raised_image"
    /\ \E d \in Ids : pubCount[d] = 1

\* ------------------------------------------------------- claims: the pass
\* the feed of the pass lists no identity twice
NoRepeatedIdentity ==
    \A i, j \in 1..Len(normalized) : i # j => normalized[i].id # normalized[j].id

\* C15 (as claimed): in a pass, after a publish call for an identity has
\* failed, no further publish call is made for that identity, whatever the feed.
C15_NoSecondPublishCall_Claimed ==
    \A i, j \in 1..Len(PubCalls) :
        (i < j /\ PubCalls[i].ev = "pub_fail") => PubCalls[j].id # PubCalls[i].id

\* C15 (amended): in a pass, no feed entry gets more than one publish call,
\* failed or not; and for a feed that lists no identity twice, after a publish
\* call for an identity has failed no further publish call is made for it.
C15_NoRetryOfEntry ==
    /\ \A i, j \in 1..Len(PubCalls) : i # j => PubCalls[i].src # PubCalls[j].src
    /\ NoRepeatedIdentity =>
          \A i, j \in 1..Len(PubCalls) :
              (i < j /\ PubCalls[i].ev = "pub_fail") => PubCalls[j].id # PubCalls[i].id

\* C15 witness: the pass is over; the publish call for one identity failed and
\* the pass went on to a publish call for another identity.
C15_Witness ==
    /\ pc = "done"
    /\ NoRepeatedIdentity
    /\ Len(PubCalls) = 2
    /\ PubCalls[1].ev = "pub_fail"
    /\ PubCalls[2].ev = "pub_ok"

\* C16: while any step of an item runs (image resolution, caption generation,
\* publish), every identity published earlier in the pass is already in the
\* persisted seen-set: the earlier item's pipeline, durable save included, is
\* complete.
C16_SavedBeforeNextItem ==
    pc \in {"image", "gen", "publish"} =>
        \A d \in Ids : Has(d, "pub_ok") => d \in FileIds(file)

\* C17: a pass whose fetch gave no item (the feed was empty, or the request or
\* the parse raised inside the adapter) ends at once and without error, makes
\* no generation call and no publish call, and leaves the seen-set file as it
\* was.
C17_EmptyFetchIsQuiet ==
    /\ [][(pc = "idle" /\ pc' = "done" /\ ~LoadRaises(last_seen')) =>
            /\ passResult' = "ok"
            /\ file' = file
            /\ trace' = <<>>
            /\ pubCount' = pubCount
            /\ genPending' = genPending
            /\ posted_ids' = LoadedIds(last_seen')
            /\ ~new_posted']_vars
    /\ []((pc = "done" /\ normalized = <<>> /\ passResult # "raised_load") =>
            (passResult = "ok" /\ trace = <<>> /\ ~new_posted))

\* C17 witness: the second pass fetched nothing and is over without error; the
\* seen-set file still holds what the first pass saved.
C17_Witness ==
    /\ pc = "done"
    /\ passes = 2
    /\ normalized = <<>>
    /\ passResult = "ok"
    /\ trace = <<>>
    /\ FileIds(file) # {}

\* C18: image resolution never raises, whatever the item's media hints are: no
\* pass ends by an exception of the image step.
C18_ImageNeverRaises == passResult # "raised_image"

\* C19: the identity of a normalized item is the raw item's id if it has one,
\* else its url, else its title, else empty; no generation or publish call is
\* ever made for the empty identity, and the empty identity is never in the
\* seen-set, in memory or persisted.
C19_IdentitySelection ==
    /\ \A k \in 1..Len(normalized) :
          LET n == normalized[k]
          IN /\ n.raw.id # 0 => n.id = n.raw.id
             /\ (n.raw.id = 0 /\ n.raw.url # 0) => n.id = n.raw.url
             /\ (n.raw.id = 0 /\ n.raw.url = 0) => n.id = n.raw.title
    /\ \A i \in 1..Len(trace) : trace[i].id # 0
    /\ 0 \notin posted_ids
    /\ 0 \notin FileIds(file)

\* C19 witness: an item without id, with url 2 and title 1, was published and
\* saved under identity 2.
C19_Witness ==
    /\ pc = "done"
    /\ \E k \in 1..Len(normalized) :
          /\ normalized[k].raw.id = 0
          /\ normalized[k].raw.url = 2
          /\ normalized[k].raw.title = 1
    /\ Has(2, "pub_ok")
    /\ FileIds(file) = {2}

\* C20: the advanced offset is in the offset file before any answer call for
\* an update is made; a batch never holds an update below the persisted
\* offset, so an update whose offset was written is not fetched again, be it
\* that both its answer calls raised or that the process was terminated after
\* the write; and no update gets more answer calls than the one attempt and
\* its one fallback.
C20_WriteBeforeAnswer ==
    /\ [](\A u \in 1..Len(events) :
            answers[u] # <<>> =>
                (offsetFile.kind = "int" /\ offsetFile.n >= u + 1))
    /\ [](\A u \in 1..Len(events) : Len(answers[u]) <= 2)
    /\ [][rpc = "poll" /\ rpc' = "upd" =>
            \A k \in 1..Len(updates') :
                updates'[k] >= read_update_offset(offsetFile)]_vars
    /\ [](rpc = "answer1" =>
            (answers[CurUpd] = <<>> /\ read_update_offset(offsetFile) >= CurUpd + 1))

\* C20 witness: the process was terminated after the offset write for update 1
\* and before its answer call; after the restart the responder fetched a batch,
\* and the batch holds update 2 only. Update 1 was never answered.
C20_Witness ==
    /\ crashes = 1
    /\ Len(events) = 2
    /\ IsCallback(1)
    /\ answers[1] = <<>>
    /\ 1 \notin handled
    /\ rpc = "upd"
    /\ updates = <<2>>
    /\ confirmed = 2
    /\ offset = 2

====
